---- MODULE Spec2Model ----
(***************************************************************************)
(* A model of the nanostory scripts:                                       *)
(*   - videogen.parse_script_md: the scene-row matcher and the duration    *)
(*     derived from a time-range label (SpecParse);                        *)
(*   - videogen.parse_script_md: the split of a document into sections     *)
(*     and the scripts the section loop collects (SpecDoc);                *)
(*   - seedance_provider.generate_video / extend_video and example.py: one *)
(*     create followed by a polling loop, and                              *)
(*     videogen.generate_videos_from_script, the batch over the parsed     *)
(*     scenes (Spec, SpecLive);                                            *)
(*   - story_gen.batch_generate, the batch over topics (SpecStory).        *)
(* Text is modelled as sequences of characters (one-character strings; the *)
(* two characters of the ending label are written by their code points).   *)
(***************************************************************************)
EXTENDS Integers, Sequences, FiniteSets, TLC

\* ------------------------------------------------------------------ bounds

\* Longest time-range label the scene-row matcher is tried on.
MaxLabelLen == 5

\* Most scene rows of a document, all its sections together.
MaxScenes == 4

\* Most scene rows of a document when the runs are checked to their end.
MaxLiveScenes == 2

\* The polls of one task that are counted; later ones leave the count as it is.
MaxPolls == 2

\* Most topics of one batch_generate run.
MaxTopics == 3

\* Most lines of a markdown document given to parse_script_md.
MaxLines == 4

\* ------------------------------------------------------------- characters

None == "None"

Digits == {"0", "1", "5"}

\* The characters labels are built from: digits, the range dash, the unit
\* letter, a letter that is neither, and the two characters of the ending label.
Alphabet == Digits \cup {"-", "s", "a", "U7ED3", "U5C3E"}

\* The ending label of a script table, two characters long.
Ending == <<"U7ED3", "U5C3E">>

Labels == UNION {[1..n -> Alphabet] : n \in 1..MaxLabelLen}

\* Cell texts of a table row: words and inline line-break markup.
Cells == {<<"x">>, <<"x", "<br>", "y">>}

\* ---------------------------------------------------------- text helpers

AllDigits(s) == Len(s) >= 1 /\ \A k \in 1..Len(s) : s[k] \in Digits

\* re: (\d+-\d+s|U7ED3 U5C3E) between the bold markers of the first cell.
MatchesTimeRange(s) ==
    \/ \E d \in 2..(Len(s) - 2) :
          /\ s[d] = "-"
          /\ AllDigits(SubSeq(s, 1, d - 1))
          /\ AllDigits(SubSeq(s, d + 1, Len(s) - 1))
          /\ s[Len(s)] = "s"
    \/ s = Ending

\* str.replace('s', ''): every occurrence of the character removed.
RECURSIVE RemoveS(_)
RemoveS(s) ==
    IF s = <<>> THEN <<>>
    ELSE IF Head(s) = "s" THEN RemoveS(Tail(s))
    ELSE <<Head(s)>> \o RemoveS(Tail(s))

\* str.split('-'): the pieces between the dashes, empty pieces kept.
RECURSIVE SplitDash(_)
SplitDash(s) ==
    IF \A k \in 1..Len(s) : s[k] # "-" THEN <<s>>
    ELSE LET d == CHOOSE k \in 1..Len(s) :
                     s[k] = "-" /\ \A m \in 1..(k - 1) : s[m] # "-"
         IN  <<SubSeq(s, 1, d - 1)>> \o SplitDash(SubSeq(s, d + 1, Len(s)))

DigitVal(c) == CASE c = "0" -> 0 [] c = "1" -> 1 [] c = "5" -> 5

\* int(text) raises ValueError unless the text is a decimal numeral.
IntRaises(s) == ~AllDigits(s)

\* int(text): the value of a decimal numeral.
RECURSIVE IntOf(_)
IntOf(s) ==
    IF Len(s) = 1 THEN DigitVal(s[1])
    ELSE IntOf(SubSeq(s, 1, Len(s) - 1)) * 10 + DigitVal(s[Len(s)])

\* re.sub(r'<br\s*/?>', ' ', cell)
CleanBr(cell) == [k \in 1..Len(cell) |-> IF cell[k] = "<br>" THEN " " ELSE cell[k]]

\* ------------------------------------------------------- parse_script_md

EndingDuration == 3
DefaultDuration == 5

\* The duration with the two ends of the range taken the other way round.
ParseDurationSwapped(time_range) ==
    IF time_range = Ending THEN EndingDuration
    ELSE LET parts == SplitDash(RemoveS(time_range))
         IN  IF Len(parts) # 2 THEN DefaultDuration
             ELSE IF IntRaises(parts[1]) \/ IntRaises(parts[2])
                  THEN DefaultDuration
             ELSE IntOf(parts[1]) - IntOf(parts[2])

\* The duration derived from a matched time range.
ParseDuration(time_range) ==
    IF time_range = Ending THEN EndingDuration
    ELSE LET parts == SplitDash(RemoveS(time_range))
         IN  IF Len(parts) # 2 THEN DefaultDuration
             ELSE IF IntRaises(parts[1]) \/ IntRaises(parts[2])
                  THEN DefaultDuration
             ELSE IntOf(parts[2]) - IntOf(parts[1])

Scene(time_range, visual, dialogue, audio) ==
    [time_range |-> time_range,
     visual_description |-> CleanBr(visual),
     dialogue |-> CleanBr(dialogue),
     audio |-> CleanBr(audio),
     duration |-> ParseDuration(time_range)]

\* The scenes re.finditer(table_pattern, ...) yields for one table row.
RowScenes(r) ==
    IF MatchesTimeRange(r.label)
    THEN <<Scene(r.label, r.visual, r.dialogue, r.audio)>>
    ELSE <<>>

\* ---------------------------------------- parse_script_md, the sections

\* The title texts of the documents.
Titles == {<<"A">>, <<"B">>}

Unknown == <<"Unknown">>

\* The time-range cells of the table rows of the documents: a range, the
\* ending label, and two cells the table pattern does not match.
DocLabels == {<<"0", "-", "5", "s">>, Ending, <<"a">>, <<"0", "-", "5">>}

\* The lines of a document: a title marker followed by a colon and a title, a
\* title marker with nothing after it, a table row, and any other text.
Lines ==
    [kind : {"title"}, text : Titles] \cup [kind : {"marker"}, text : {<<>>}]
    \cup [kind : {"row"}, text : DocLabels] \cup [kind : {"text"}, text : {<<>>}]

Documents == UNION {[1..n -> Lines] : n \in 0..MaxLines}

\* '### U5267 U672C U6807 U9898' in text
HasMarker(text) == \E k \in 1..Len(text) : text[k].kind \in {"title", "marker"}

\* re.split(r'(?=### ...)', content): the text cut in front of every marker;
\* the first piece is what precedes the first marker, empty if nothing does.
RECURSIVE SplitAtMarkers(_)
SplitAtMarkers(text) ==
    IF ~HasMarker(text) THEN <<text>>
    ELSE LET m == CHOOSE k \in 1..Len(text) :
                     /\ text[k].kind \in {"title", "marker"}
                     /\ \A n \in (k + 1)..Len(text) : text[n].kind \notin {"title", "marker"}
         IN  SplitAtMarkers(SubSeq(text, 1, m - 1)) \o <<SubSeq(text, m, Len(text))>>

\* re.search of the title pattern: the first marker that a colon and a title
\* follow, "Unknown" if there is none.
SectionTitle(section) ==
    IF \E k \in 1..Len(section) : section[k].kind = "title"
    THEN section[CHOOSE k \in 1..Len(section) :
                     /\ section[k].kind = "title"
                     /\ \A n \in 1..(k - 1) : section[n].kind # "title"].text
    ELSE Unknown

\* The scene loop over re.finditer(table_pattern, section).
RECURSIVE SectionScenes(_)
SectionScenes(section) ==
    IF section = <<>> THEN <<>>
    ELSE (IF Head(section).kind = "row"
          THEN RowScenes([label |-> Head(section).text, visual |-> <<"x">>,
                          dialogue |-> <<"d">>, audio |-> <<"a">>])
          ELSE <<>>) \o SectionScenes(Tail(section))

\* The body of the section loop with the test of the scenes list left out.
SectionScriptsKeepsEmpty(section) ==
    IF section = <<>> \/ ~HasMarker(section) THEN <<>>
    ELSE <<[title |-> SectionTitle(section),
            characters |-> <<>>,
            scenes |-> SectionScenes(section)]>>

\* The body of the section loop: what one section adds to the scripts list.
SectionScripts(section) ==
    IF section = <<>> \/ ~HasMarker(section) THEN <<>>
    ELSE LET found == SectionScenes(section)
         IN  IF found # <<>>
             THEN <<[title |-> SectionTitle(section),
                     characters |-> <<>>,
                     scenes |-> found]>>
             ELSE <<>>

VARIABLES
    \* parse_script_md, one table row
    ppc,        \* "read" before the row is scanned, "done" after
    row,        \* the table row of the section being scanned
    scenes,     \* the scenes list of the section
    \* parse_script_md, the sections of a document
    dpc,        \* "read", "sections" in the section loop, "done" at the return
    content,    \* the lines of the markdown file
    script_sections,    \* the pieces re.split cut the content into
    sec,        \* the section of the loop, from 1
    md_scripts, \* the scripts list of parse_script_md
    \* the video programs
    prog,       \* "videogen", "extend" (a call of extend_video) or "example"
    doc,        \* videogen: the scenes per script of the markdown file
    script_index,   \* videogen: <<>> for None, <<k>> for k
    duration,   \* the duration argument
    dry_run,    \* videogen: the dry_run argument
    pc,         \* where the program is
    scripts,    \* videogen: the scripts being processed
    i, j,       \* videogen: the script and the scene of the loops, from 1
    results,    \* videogen: the results list
    task_id,    \* the task id the polling loop queries, 0 before create returns
    get_result, \* the object the last get returned
    polls,      \* the gets of the running call, counted up to MaxPolls
    outcome,    \* what the program or call ended with
    \* the remote service, as the calls reach it
    call,       \* the number of generate_video / extend_video calls entered
    createCalls,    \* every create call: its call, its request, what it returned
    getCalls,   \* every get call: its call, the id asked for, whether the
                \* task had already been reported terminal
    tasks,      \* the tasks created, by id: request, last object reported,
                \* number of terminal statuses reported
    \* story_gen.batch_generate
    spc,        \* where batch_generate is
    topics,     \* the topics argument
    si,         \* the topic of the loop, from 1 as enumerate(topics, 1) counts
    saved_files,    \* the saved_files list
    console,    \* the result line printed for each topic
    textCalls,  \* every generate_text call: its topic, whether it raised
    writes      \* every file write of save_story: its path, whether it raised

docVars == <<dpc, content, script_sections, sec, md_scripts>>

parseVars == <<ppc, row, scenes, docVars>>

inputVars == <<prog, doc, script_index, duration, dry_run>>

loopVars == <<scripts, i, j, results>>

callVars == <<task_id, get_result, polls>>

svcVars == <<call, createCalls, getCalls, tasks>>

videoVars == <<inputVars, pc, loopVars, callVars, outcome, svcVars>>

storyVars == <<spc, topics, si, saved_files, console, textCalls, writes>>

vars == <<parseVars, videoVars, storyVars>>

\* --------------------------------------------------------- parse, one row

DocIdle ==
    /\ dpc = "idle"
    /\ content = <<>>
    /\ script_sections = <<>>
    /\ sec = 1
    /\ md_scripts = <<>>

ParseInit ==
    /\ ppc = "read"
    /\ row = [label |-> <<>>]
    /\ scenes = <<>>
    /\ DocIdle

ParseIdle ==
    /\ ppc = "idle"
    /\ row = [label |-> <<>>]
    /\ scenes = <<>>
    /\ DocIdle

\* One table row of a section goes through the scene loop.
MatchRow ==
    /\ ppc = "read"
    /\ \E label \in Labels, visual \in Cells :
          /\ row' = [label |-> label, visual |-> visual,
                     dialogue |-> <<"d">>, audio |-> <<"a">>]
          /\ scenes' = scenes \o RowScenes(row')
    /\ ppc' = "done"
    /\ UNCHANGED <<docVars, videoVars, storyVars>>

\* ---------------------------------------------- parse, a whole document

DocInit ==
    /\ ppc = "idle"
    /\ row = [label |-> <<>>]
    /\ scenes = <<>>
    /\ dpc = "read"
    /\ content \in Documents
    /\ script_sections = <<>>
    /\ sec = 1
    /\ md_scripts = <<>>

\* The file is read and its content split in front of the title markers.
SplitContent ==
    /\ dpc = "read"
    /\ script_sections' = SplitAtMarkers(content)
    /\ dpc' = "sections"
    /\ UNCHANGED <<ppc, row, scenes, content, sec, md_scripts, videoVars, storyVars>>

\* One pass of the section loop.
Section ==
    /\ dpc = "sections"
    /\ sec <= Len(script_sections)
    /\ md_scripts' = md_scripts \o SectionScripts(script_sections[sec])
    /\ sec' = sec + 1
    /\ UNCHANGED <<ppc, row, scenes, dpc, content, script_sections, videoVars, storyVars>>

\* The section loop is over: return scripts.
ParseReturn ==
    /\ dpc = "sections"
    /\ sec > Len(script_sections)
    /\ dpc' = "done"
    /\ UNCHANGED <<ppc, row, scenes, content, script_sections, sec, md_scripts,
                   videoVars, storyVars>>

\* ------------------------------------------------------ the remote service

Terminal == {"succeeded", "failed"}

\* queued and running, and one status outside the four of the task lifecycle.
Pending == {"queued", "running", "cancelled"}

Statuses == Terminal \cup Pending

NoGet == [id |-> 0, status |-> "none", error |-> <<>>, content |-> <<>>]

\* The object tasks.get(task_id=id) answers with when the task's status is st.
GetObject(id, st) ==
    [id |-> id, status |-> st,
     error |-> IF st = "failed" THEN <<"err", ToString(id)>> ELSE <<>>,
     content |-> IF st = "succeeded" THEN <<"video", ToString(id)>> ELSE <<>>]

\* str(e) of the exception tasks.create raises when it rejects a request.
CreateRejected == <<"create rejected">>

\* tasks.create(model, content): a new task and its id, or a rejection.
SvcCreate(req, ok) ==
    /\ createCalls' = Append(createCalls,
          [call |-> call, req |-> req, id |-> IF ok THEN Len(tasks) + 1 ELSE 0])
    /\ tasks' = IF ok THEN Append(tasks, [req |-> req, last |-> NoGet, term |-> 0])
                ELSE tasks

\* tasks.get(task_id=id), answered with status st.
SvcGet(id, st) ==
    /\ getCalls' = getCalls \cup
          {[call |-> call, id |-> id,
            late |-> id \in 1..Len(tasks) /\ tasks[id].term > 0]}
    /\ tasks' = IF id \in 1..Len(tasks)
                THEN [tasks EXCEPT ![id] =
                        [@ EXCEPT !.last = GetObject(id, st),
                                  !.term = IF st \in Terminal THEN @ + 1 ELSE @]]
                ELSE tasks

\* ------------------------------------------------------------- requests

DEFAULT_MODEL == "seedance-1-5-pro-251215"
VIDEO_EXTEND_MODEL == "seedance-1-5-pro-video-extend"

\* generate_video's model and content list (no reference image is passed).
GenRequest(prompt, dur, camera_fixed) ==
    [model |-> DEFAULT_MODEL,
     content |-> <<[type |-> "text",
                    text |-> <<prompt, "  --duration ", dur, " --camerafixed ",
                               IF camera_fixed THEN "true" ELSE "false">>]>>]

\* extend_video's model and content list.
ExtRequest(video_url, prompt, dur) ==
    [model |-> VIDEO_EXTEND_MODEL,
     content |-> <<[type |-> "text", text |-> <<prompt, "  --duration ", dur>>],
                   [type |-> "video_url", video_url |-> [url |-> video_url]]>>]

\* The request example.py sends.
ExampleRequest ==
    [model |-> DEFAULT_MODEL,
     content |-> <<[type |-> "text",
                    text |-> <<"A character is struck", "  --duration ", 5,
                               " --camerafixed ", "false">>]>>]

\* f"Video generation failed: {get_result.error}"
GenFailed(obj) == <<"Video generation failed: ">> \o obj.error

\* f"Video extension failed: {get_result.error}"
ExtFailed(obj) == <<"Video extension failed: ">> \o obj.error

\* ------------------------------------------------------ videogen's input

\* The k-th of the n table rows of a section: ranges of 5 and of 10 seconds
\* in turn, and the ending row last when there are several.
RowAt(k, n) ==
    [label |-> IF k = n /\ n > 1 THEN Ending
               ELSE IF k % 2 = 1 THEN <<"0", "-", "5", "s">>
               ELSE <<"5", "-", "1", "5", "s">>,
     visual |-> IF k % 2 = 1 THEN <<"x">> ELSE <<"x", "<br>", "y">>,
     dialogue |-> <<"d">>,
     audio |-> <<"a">>]

RECURSIVE ScenesOf(_)
ScenesOf(rows) ==
    IF rows = <<>> THEN <<>> ELSE RowScenes(Head(rows)) \o ScenesOf(Tail(rows))

\* parse_script_md on a document whose k-th section has d[k] table rows.
ParsedScripts(d) ==
    LET all == [k \in 1..Len(d) |->
                   [title |-> <<"T", k>>,
                    characters |-> <<>>,
                    scenes |-> ScenesOf([m \in 1..d[k] |-> RowAt(m, d[k])])]]
        kept(sc) == sc.scenes # <<>>
    IN  SelectSeq(all, kept)

RECURSIVE RowCount(_)
RowCount(d) == IF d = <<>> THEN 0 ELSE Head(d) + RowCount(Tail(d))

\* The documents: for each section its number of table rows, at least one.
Docs ==
    {d \in UNION {[1..n -> 1..MaxScenes] : n \in 0..MaxScenes} : RowCount(d) <= MaxScenes}

IndexChoices == {<<>>} \cup {<<k>> : k \in (-1)..MaxScenes}

Durations == {5, 8}

\* build_video_prompt, on cells without bracket or bold markup.
BuildVideoPrompt(scene) ==
    <<scene.visual_description, ". ", "cinematic", " style, high quality, detailed">>

\* ------------------------------------------------- generate_videos_from_script

NoOutcome == [kind |-> "none"]

VideoInit ==
    /\ prog \in {"videogen", "extend", "example"}
    /\ doc \in IF prog = "videogen" THEN Docs ELSE {<<>>}
    /\ script_index \in IF prog = "videogen" THEN IndexChoices ELSE {<<>>}
    /\ duration \in IF prog = "example" THEN {5} ELSE Durations
    /\ dry_run \in IF prog = "videogen" THEN BOOLEAN ELSE {FALSE}
    /\ pc = CASE prog = "videogen" -> "start"
              [] prog = "extend" -> "ext_create"
              [] prog = "example" -> "ex_create"
    /\ scripts = <<>>
    /\ i = 1
    /\ j = 1
    /\ results = <<>>
    /\ task_id = 0
    /\ get_result = NoGet
    /\ polls = 0
    /\ outcome = NoOutcome
    /\ call = IF prog = "videogen" THEN 0 ELSE 1
    /\ createCalls = <<>>
    /\ getCalls = {}
    /\ tasks = <<>>

VideoIdle ==
    /\ prog = "none"
    /\ doc = <<>>
    /\ script_index = <<>>
    /\ duration = 5
    /\ dry_run = FALSE
    /\ pc = "idle"
    /\ scripts = <<>>
    /\ i = 1
    /\ j = 1
    /\ results = <<>>
    /\ task_id = 0
    /\ get_result = NoGet
    /\ polls = 0
    /\ outcome = NoOutcome
    /\ call = 0
    /\ createCalls = <<>>
    /\ getCalls = {}
    /\ tasks = <<>>

\* Parse the file and apply script_index.
Start ==
    /\ pc = "start"
    /\ LET parsed == ParsedScripts(doc)
           k == script_index[1]
       IN  IF script_index = <<>>
           THEN /\ scripts' = parsed
                /\ pc' = "script_loop"
                /\ outcome' = outcome
           ELSE IF k >= Len(parsed)
           THEN /\ scripts' = parsed
                /\ pc' = "raised"
                /\ outcome' = [kind |-> "raise", value |-> <<"ValueError", ToString(k)>>]
           ELSE IF k < -Len(parsed)
           THEN /\ scripts' = parsed
                /\ pc' = "raised"
                /\ outcome' = [kind |-> "raise", value |-> <<"IndexError">>]
           ELSE /\ scripts' = <<parsed[IF k >= 0 THEN k + 1 ELSE Len(parsed) + k + 1]>>
                /\ pc' = "script_loop"
                /\ outcome' = outcome
    /\ i' = 1
    /\ j' = 1
    /\ results' = <<>>
    /\ UNCHANGED <<parseVars, storyVars, inputVars, callVars, svcVars>>

\* The outer loop: the next script, or the return of the results.
ScriptLoop ==
    /\ pc = "script_loop"
    /\ IF i > Len(scripts)
       THEN /\ pc' = "done"
            /\ outcome' = [kind |-> "return", value |-> results]
            /\ j' = j
       ELSE /\ pc' = "scene_loop"
            /\ outcome' = outcome
            /\ j' = 1
    /\ UNCHANGED <<parseVars, storyVars, inputVars, scripts, i, results, callVars, svcVars>>

\* The inner loop with the dry-run skip left out.
SceneLoopIgnoresDryRun ==
    /\ pc = "scene_loop"
    /\ IF j > Len(scripts[i].scenes)
       THEN /\ i' = i + 1
            /\ pc' = "script_loop"
            /\ UNCHANGED <<j, call>>
       ELSE /\ pc' = "gen_create"
            /\ call' = call + 1
            /\ UNCHANGED <<i, j>>
    /\ UNCHANGED <<parseVars, storyVars, inputVars, scripts, results, callVars, outcome,
                   createCalls, getCalls, tasks>>

\* The inner loop up to the call of generate_video: the next scene, its
\* prompt, and the dry-run skip.
SceneLoop ==
    /\ pc = "scene_loop"
    /\ IF j > Len(scripts[i].scenes)
       THEN /\ i' = i + 1
            /\ pc' = "script_loop"
            /\ UNCHANGED <<j, call>>
       ELSE IF dry_run
       THEN /\ j' = j + 1
            /\ UNCHANGED <<i, pc, call>>
       ELSE /\ pc' = "gen_create"
            /\ call' = call + 1
            /\ UNCHANGED <<i, j>>
    /\ UNCHANGED <<parseVars, storyVars, inputVars, scripts, results, callVars, outcome,
                   createCalls, getCalls, tasks>>

\* The record of a generated scene keeping only the video of the result.
ResultInfoContentOnly(script, jj, scene, result) ==
    [script_title |-> script.title,
     scene_index |-> jj - 1,
     time_range |-> scene.time_range,
     prompt |-> BuildVideoPrompt(scene),
     result |-> result.content]

\* The record of a generated scene.
ResultInfo(script, jj, scene, result) ==
    [script_title |-> script.title,
     scene_index |-> jj - 1,
     time_range |-> scene.time_range,
     prompt |-> BuildVideoPrompt(scene),
     result |-> result]

\* The record of a scene whose generate_video raised e.
ErrorInfo(script, jj, e) ==
    [script_title |-> script.title,
     scene_index |-> jj - 1,
     error |-> e]

\* generate_video returned: the record is appended and the loop goes on.
Generated(result) ==
    /\ results' = Append(results, ResultInfo(scripts[i], j, scripts[i].scenes[j], result))
    /\ j' = j + 1
    /\ pc' = "scene_loop"

\* An except clause that goes on without recording the error.
CaughtDropsRecord(e) ==
    /\ results' = results
    /\ j' = j + 1
    /\ pc' = "scene_loop"

\* generate_video raised: the except clause records the error and the loop
\* goes on.
Caught(e) ==
    /\ results' = Append(results, ErrorInfo(scripts[i], j, e))
    /\ j' = j + 1
    /\ pc' = "scene_loop"

\* A create that is tried again when the service rejects the request.
GenCreateRetries ==
    /\ pc = "gen_create"
    /\ \E ok \in BOOLEAN :
          /\ SvcCreate(GenRequest(BuildVideoPrompt(scripts[i].scenes[j]), duration, FALSE), ok)
          /\ IF ok
             THEN /\ task_id' = Len(tasks) + 1
                  /\ pc' = "gen_poll"
             ELSE /\ UNCHANGED <<task_id, pc>>
          /\ UNCHANGED <<results, j>>
    /\ polls' = 0
    /\ get_result' = NoGet
    /\ UNCHANGED <<parseVars, storyVars, inputVars, scripts, i, outcome, call, getCalls>>

\* A create whose request carries the duration the parser derived for the scene.
GenCreateSceneDuration ==
    /\ pc = "gen_create"
    /\ \E ok \in BOOLEAN :
          /\ SvcCreate(GenRequest(BuildVideoPrompt(scripts[i].scenes[j]),
                                  scripts[i].scenes[j].duration, FALSE), ok)
          /\ IF ok
             THEN /\ task_id' = Len(tasks) + 1
                  /\ pc' = "gen_poll"
                  /\ UNCHANGED <<results, j>>
             ELSE /\ Caught(CreateRejected)
                  /\ UNCHANGED task_id
    /\ polls' = 0
    /\ get_result' = NoGet
    /\ UNCHANGED <<parseVars, storyVars, inputVars, scripts, i, outcome, call, getCalls>>

\* generate_video up to the polling loop: the request and the create call.
GenCreate ==
    /\ pc = "gen_create"
    /\ \E ok \in BOOLEAN :
          /\ SvcCreate(GenRequest(BuildVideoPrompt(scripts[i].scenes[j]), duration, FALSE), ok)
          /\ IF ok
             THEN /\ task_id' = Len(tasks) + 1
                  /\ pc' = "gen_poll"
                  /\ UNCHANGED <<results, j>>
             ELSE /\ Caught(CreateRejected)
                  /\ UNCHANGED task_id
    /\ polls' = 0
    /\ get_result' = NoGet
    /\ UNCHANGED <<parseVars, storyVars, inputVars, scripts, i, outcome, call, getCalls>>

\* A polling loop that takes failed for a status to wait on.
GenPollIgnoresFailed ==
    /\ pc = "gen_poll"
    /\ \E st \in Statuses :
          /\ SvcGet(task_id, st)
          /\ get_result' = GetObject(task_id, st)
          /\ IF st = "succeeded" THEN Generated(get_result')
             ELSE /\ pc' = "gen_sleep"
                  /\ UNCHANGED <<results, j>>
    /\ polls' = IF polls < MaxPolls THEN polls + 1 ELSE polls
    /\ UNCHANGED <<parseVars, storyVars, inputVars, scripts, i, task_id, outcome, call, createCalls>>

\* A polling loop that returns on every status but failed.
GenPollReturnsUnlessFailed ==
    /\ pc = "gen_poll"
    /\ \E st \in Statuses :
          /\ SvcGet(task_id, st)
          /\ get_result' = GetObject(task_id, st)
          /\ IF st = "failed" THEN Caught(GenFailed(get_result'))
             ELSE Generated(get_result')
    /\ polls' = IF polls < MaxPolls THEN polls + 1 ELSE polls
    /\ UNCHANGED <<parseVars, storyVars, inputVars, scripts, i, task_id, outcome, call, createCalls>>

\* One pass of generate_video's polling loop, up to the return, the raise or
\* the sleep.
GenPoll ==
    /\ pc = "gen_poll"
    /\ \E st \in Statuses :
          /\ SvcGet(task_id, st)
          /\ get_result' = GetObject(task_id, st)
          /\ IF st = "succeeded" THEN Generated(get_result')
             ELSE IF st = "failed" THEN Caught(GenFailed(get_result'))
             ELSE /\ pc' = "gen_sleep"
                  /\ UNCHANGED <<results, j>>
    /\ polls' = IF polls < MaxPolls THEN polls + 1 ELSE polls
    /\ UNCHANGED <<parseVars, storyVars, inputVars, scripts, i, task_id, outcome, call, createCalls>>

\* A loop that begins above the create call: the request is sent again.
GenSleepResubmits ==
    /\ pc = "gen_sleep"
    /\ pc' = "gen_create"
    /\ UNCHANGED <<parseVars, storyVars, inputVars, loopVars, callVars, outcome, svcVars>>

\* A loop that gives up after MaxPolls polls.
GenSleepGivesUp ==
    /\ pc = "gen_sleep"
    /\ IF polls >= MaxPolls
       THEN Caught(<<"timed out">>)
       ELSE /\ pc' = "gen_poll"
            /\ UNCHANGED <<results, j>>
    /\ UNCHANGED <<parseVars, storyVars, inputVars, scripts, i, callVars, outcome, svcVars>>

\* time.sleep(poll_interval), then the loop again.
GenSleep ==
    /\ pc = "gen_sleep"
    /\ pc' = "gen_poll"
    /\ UNCHANGED <<parseVars, storyVars, inputVars, loopVars, callVars, outcome, svcVars>>

\* ------------------------------------------------------------ extend_video

ExtCreate ==
    /\ pc = "ext_create"
    /\ \E ok \in BOOLEAN :
          /\ SvcCreate(ExtRequest("video.mp4", "the camera pulls back", duration), ok)
          /\ IF ok
             THEN /\ task_id' = Len(tasks) + 1
                  /\ pc' = "ext_poll"
                  /\ outcome' = outcome
             ELSE /\ pc' = "raised"
                  /\ outcome' = [kind |-> "raise", value |-> CreateRejected]
                  /\ UNCHANGED task_id
    /\ UNCHANGED <<parseVars, storyVars, inputVars, loopVars, get_result, polls, call, getCalls>>

ExtPoll ==
    /\ pc = "ext_poll"
    /\ \E st \in Statuses :
          /\ SvcGet(task_id, st)
          /\ get_result' = GetObject(task_id, st)
          /\ IF st = "succeeded"
             THEN /\ pc' = "returned"
                  /\ outcome' = [kind |-> "return", value |-> get_result']
             ELSE IF st = "failed"
             THEN /\ pc' = "raised"
                  /\ outcome' = [kind |-> "raise", value |-> ExtFailed(get_result')]
             ELSE /\ pc' = "ext_sleep"
                  /\ outcome' = outcome
    /\ polls' = IF polls < MaxPolls THEN polls + 1 ELSE polls
    /\ UNCHANGED <<parseVars, storyVars, inputVars, loopVars, task_id, call, createCalls>>

ExtSleep ==
    /\ pc = "ext_sleep"
    /\ pc' = "ext_poll"
    /\ UNCHANGED <<parseVars, storyVars, inputVars, loopVars, callVars, outcome, svcVars>>

\* ------------------------------------------------------------- example.py

ExCreate ==
    /\ pc = "ex_create"
    /\ \E ok \in BOOLEAN :
          /\ SvcCreate(ExampleRequest, ok)
          /\ IF ok
             THEN /\ task_id' = Len(tasks) + 1
                  /\ pc' = "ex_poll"
                  /\ outcome' = outcome
             ELSE /\ pc' = "raised"
                  /\ outcome' = [kind |-> "raise", value |-> CreateRejected]
                  /\ UNCHANGED task_id
    /\ UNCHANGED <<parseVars, storyVars, inputVars, loopVars, get_result, polls, call, getCalls>>

ExPoll ==
    /\ pc = "ex_poll"
    /\ \E st \in Statuses :
          /\ SvcGet(task_id, st)
          /\ get_result' = GetObject(task_id, st)
          /\ IF st = "succeeded"
             THEN /\ pc' = "done"
                  /\ outcome' = [kind |-> "print", value |-> get_result']
             ELSE IF st = "failed"
             THEN /\ pc' = "done"
                  /\ outcome' = [kind |-> "print", value |-> <<"Error: ">> \o get_result'.error]
             ELSE /\ pc' = "ex_sleep"
                  /\ outcome' = outcome
    /\ polls' = IF polls < MaxPolls THEN polls + 1 ELSE polls
    /\ UNCHANGED <<parseVars, storyVars, inputVars, loopVars, task_id, call, createCalls>>

ExSleep ==
    /\ pc = "ex_sleep"
    /\ pc' = "ex_poll"
    /\ UNCHANGED <<parseVars, storyVars, inputVars, loopVars, callVars, outcome, svcVars>>

\* ------------------------------------------------- story_gen.batch_generate

Topics == {<<"x">>, <<"x", "/">>}

TopicLists == UNION {[1..n -> Topics] : n \in 0..MaxTopics}

SafeTopicLen == 30

\* save_story's safe_topic: letters kept, other characters replaced by "_",
\* cut to 30 characters.
SafeTopic(topic) ==
    LET safe == [k \in 1..Len(topic) |->
                    IF topic[k] \in {"x", ".", "_", "-"} THEN topic[k] ELSE "_"]
    IN  SubSeq(safe, 1, IF Len(safe) < SafeTopicLen THEN Len(safe) ELSE SafeTopicLen)

\* The path save_story writes for a topic of a batch ("ts" is the timestamp).
StoryPath(topic, index) ==
    <<"story_", SafeTopic(topic), "_", "ts", "_", index, ".md">>

StoryInit ==
    /\ spc = "start"
    /\ topics \in TopicLists
    /\ si = 1
    /\ saved_files = <<>>
    /\ console = <<>>
    /\ textCalls = <<>>
    /\ writes = <<>>

StoryIdle ==
    /\ spc = "idle"
    /\ topics = <<>>
    /\ si = 1
    /\ saved_files = <<>>
    /\ console = <<>>
    /\ textCalls = <<>>
    /\ writes = <<>>

\* batch_generate before its loop: load_system_prompt reads the prompt file,
\* which may raise, outside any try.
StoryStart ==
    /\ spc = "start"
    /\ \E loaded \in BOOLEAN : spc' = IF loaded THEN "loop" ELSE "raised"
    /\ saved_files' = <<>>
    /\ si' = 1
    /\ UNCHANGED <<parseVars, videoVars, topics, console, textCalls, writes>>

\* A pass of the loop without the try: an error ends batch_generate.
StoryTopicAborts ==
    /\ spc = "loop"
    /\ si <= Len(topics)
    /\ \E how \in {"saved", "generate raises", "save raises"} :
          /\ textCalls' = Append(textCalls,
                [topic |-> topics[si], raised |-> how = "generate raises"])
          /\ writes' = IF how = "generate raises" THEN writes
                       ELSE Append(writes, [path |-> StoryPath(topics[si], si),
                                            raised |-> how = "save raises"])
          /\ saved_files' = IF how = "saved"
                            THEN Append(saved_files, StoryPath(topics[si], si))
                            ELSE saved_files
          /\ console' = IF how = "saved"
                        THEN Append(console, <<"saved: ", StoryPath(topics[si], si)>>)
                        ELSE console
          /\ spc' = IF how = "saved" THEN spc ELSE "raised"
    /\ si' = si + 1
    /\ UNCHANGED <<parseVars, videoVars, topics>>

\* One pass of the loop: generate_story, save_story, and the except clause.
StoryTopic ==
    /\ spc = "loop"
    /\ si <= Len(topics)
    /\ \E how \in {"saved", "generate raises", "save raises"} :
          /\ textCalls' = Append(textCalls,
                [topic |-> topics[si], raised |-> how = "generate raises"])
          /\ writes' = IF how = "generate raises" THEN writes
                       ELSE Append(writes, [path |-> StoryPath(topics[si], si),
                                            raised |-> how = "save raises"])
          /\ saved_files' = IF how = "saved"
                            THEN Append(saved_files, StoryPath(topics[si], si))
                            ELSE saved_files
          /\ console' = Append(console,
                IF how = "saved" THEN <<"saved: ", StoryPath(topics[si], si)>>
                ELSE <<"failed: ", how>>)
    /\ si' = si + 1
    /\ UNCHANGED <<parseVars, videoVars, spc, topics>>

\* The loop is over: saved_files is returned.
StoryReturn ==
    /\ spc = "loop"
    /\ si > Len(topics)
    /\ spc' = "done"
    /\ UNCHANGED <<parseVars, videoVars, topics, si, saved_files, console, textCalls, writes>>

\* ------------------------------------------------------- specifications

ParseNext == MatchRow

InitParse == ParseInit /\ VideoIdle /\ StoryIdle

SpecParse == InitParse /\ [][ParseNext]_vars

DocNext == SplitContent \/ Section \/ ParseReturn

InitDoc == DocInit /\ VideoIdle /\ StoryIdle

SpecDoc == InitDoc /\ [][DocNext]_vars

StoryNext == StoryStart \/ StoryTopic \/ StoryReturn

InitStory == StoryInit /\ ParseIdle /\ VideoIdle

SpecStory == InitStory /\ [][StoryNext]_vars

Init == ParseIdle /\ StoryIdle /\ VideoInit

Next ==
    \/ Start
    \/ ScriptLoop
    \/ SceneLoop
    \/ GenCreate
    \/ GenPoll
    \/ GenSleep
    \/ ExtCreate
    \/ ExtPoll
    \/ ExtSleep
    \/ ExCreate
    \/ ExPoll
    \/ ExSleep

Spec == Init /\ [][Next]_vars

\* A poll is answered with a terminal status.
TerminalReported ==
    /\ GenPoll \/ ExtPoll \/ ExPoll
    /\ get_result'.status \in Terminal

\* The program runs on while it can, and the service does not answer the
\* polls of a task with non-terminal statuses for ever.
InitLive == Init /\ RowCount(doc) <= MaxLiveScenes

SpecLive == InitLive /\ [][Next]_vars /\ WF_vars(Next) /\ SF_vars(TerminalReported)

\* ------------------------------------------------------------------ claims

\* The number a decimal numeral denotes, digit by digit with its weight.
Numeral == [c \in Digits |-> CASE c = "0" -> 0 [] c = "1" -> 1 [] c = "5" -> 5]

IsNumeral(s) == s # <<>> /\ \A k \in 1..Len(s) : s[k] \in Digits

RECURSIVE Denotes(_)
Denotes(s) ==
    IF s = <<>> THEN 0 ELSE Numeral[Head(s)] * 10 ^ (Len(s) - 1) + Denotes(Tail(s))

\* A label start-end followed by "s", split at the dash in position d.
IsRangeAt(t, d) ==
    /\ d \in 2..(Len(t) - 2)
    /\ t[d] = "-"
    /\ t[Len(t)] = "s"
    /\ IsNumeral(SubSeq(t, 1, d - 1))
    /\ IsNumeral(SubSeq(t, d + 1, Len(t) - 1))

IsRange(t) == \E d \in 1..Len(t) : IsRangeAt(t, d)

\* C9: every scene the parser returns for a row carries the row's label, and its
\* duration is 3 for the ending label and end - start for a label start-end
\* followed by "s", whatever the two numbers (end <= start included).
C9_DurationOfTimeRange ==
    \A n \in 1..Len(scenes) :
        LET t == scenes[n].time_range
        IN  /\ t = row.label
            /\ t = Ending => scenes[n].duration = 3
            /\ \A d \in 1..Len(t) :
                  IsRangeAt(t, d) =>
                      scenes[n].duration =
                          Denotes(SubSeq(t, d + 1, Len(t) - 1)) - Denotes(SubSeq(t, 1, d - 1))

\* C9 witness: the row labelled 5-10s has been parsed into a scene of 5 seconds.
C9_Witness ==
    /\ ppc = "done"
    /\ row.label = <<"5", "-", "1", "0", "s">>
    /\ Len(scenes) = 1
    /\ scenes[1].duration = 5

\* C10: a row whose label is neither the ending label nor a numeric range is
\* parsed into a scene of the default 5 seconds; the row is not lost.
C10_OtherLabelDefaults ==
    (ppc = "done" /\ row.label # Ending /\ ~IsRange(row.label)) =>
        /\ Len(scenes) = 1
        /\ scenes[1].time_range = row.label
        /\ scenes[1].duration = 5

\* --------------------------------------------------- the calls, as logged

GenPcs == {"gen_create", "gen_poll", "gen_sleep"}

CreatePcs == {"gen_create", "ext_create", "ex_create"}

PollPcs == {"gen_poll", "gen_sleep", "ext_poll", "ext_sleep", "ex_poll", "ex_sleep"}

\* The create calls and the get calls made within call c.
CreatesOf(c) == {n \in 1..Len(createCalls) : createCalls[n].call = c}

GetsOf(c) == {g \in getCalls : g.call = c}

\* Call c has got past its create.
PastCreate(c) == c < call \/ pc \notin CreatePcs

\* Call c has returned or raised.
CallOver(c) == c < call \/ pc \notin (CreatePcs \cup PollPcs)

\* C1: in every call (generate_video, extend_video, example.py) create is invoked
\* exactly once, no get is issued before create has returned its id, and every
\* get asks for the id that create returned.
C1_OneCreateThenGets ==
    \A c \in 1..call :
        /\ Cardinality(CreatesOf(c)) <= 1
        /\ PastCreate(c) => Cardinality(CreatesOf(c)) = 1
        /\ \A g \in GetsOf(c) :
              /\ g.id # 0
              /\ \E n \in CreatesOf(c) : createCalls[n].id = g.id

\* C1 witness: the second generate_video call of a batch has polled MaxPolls
\* times and is about to poll again.
C1_Witness ==
    /\ pc = "gen_sleep"
    /\ call = 2
    /\ polls = MaxPolls
    /\ Cardinality(CreatesOf(2)) = 1
    /\ GetsOf(2) # {}

\* C2: a terminal status is reported at most once for a task: the get that
\* reports it ends the loop, and no get asks for the task afterwards.
C2_TerminalObservedOnce ==
    /\ \A id \in 1..Len(tasks) :
          /\ tasks[id].term <= 1
          /\ tasks[id].term = 1 => ~(pc \in PollPcs /\ task_id = id)
    /\ \A g \in getCalls : ~g.late

\* C2 witness: a task was polled while pending and then reported terminal.
C2_Witness ==
    /\ Len(tasks) = 1
    /\ tasks[1].term = 1
    /\ polls = MaxPolls
    /\ pc \notin PollPcs

\* e occurs in msg as a run of consecutive characters.
Contains(msg, e) ==
    \E k \in 1..(Len(msg) - Len(e) + 1) : SubSeq(msg, k, k + Len(e) - 1) = e

\* The create call of the c-th generate_video call of a batch.
CreateOf(c) == createCalls[CHOOSE n \in 1..Len(createCalls) : createCalls[n].call = c]

\* The number of generate_video calls of the batch that are over.
CallsOver == IF pc \in GenPcs THEN call - 1 ELSE call

\* C3: every scene generate_video was called for has exactly one record; it
\* carries the object of the final get under "result" and no "error" when the
\* task succeeded, and an "error" text holding the provider's message and no
\* "result" when the task failed; never both and never neither.
C3_OneRecordPerScene ==
    prog = "videogen" =>
        /\ Len(results) = CallsOver
        /\ \A c \in 1..Len(results) :
              LET r == results[c]
                  id == CreateOf(c).id
              IN  /\ ("result" \in DOMAIN r) # ("error" \in DOMAIN r)
                  /\ id # 0 =>
                        /\ tasks[id].last.status \in Terminal
                        /\ tasks[id].last.status = "succeeded" =>
                              /\ "result" \in DOMAIN r
                              /\ r.result = tasks[id].last
                        /\ tasks[id].last.status = "failed" =>
                              /\ "error" \in DOMAIN r
                              /\ tasks[id].last.error # <<>>
                              /\ Contains(r.error, tasks[id].last.error)

\* C3 witness: a finished batch with a succeeded scene and a failed one.
C3_Witness ==
    /\ prog = "videogen"
    /\ pc = "done"
    /\ Len(results) = 2
    /\ CreateOf(1).id = 1
    /\ tasks[1].last.status = "succeeded"
    /\ CreateOf(2).id = 2
    /\ tasks[2].last.status = "failed"

\* The scenes of the scripts in script, then scene, order.
RECURSIVE FlatScenes(_)
FlatScenes(ss) ==
    IF ss = <<>> THEN <<>>
    ELSE [m \in 1..Len(Head(ss).scenes) |->
             [title |-> Head(ss).title, index |-> m - 1, scene |-> Head(ss).scenes[m]]]
         \o FlatScenes(Tail(ss))

\* The n-th scene of a batch failed: at submission, or by reaching failed.
SceneFailed(n) ==
    \/ CreateOf(n).id = 0
    \/ tasks[CreateOf(n).id].last.status = "failed"

\* C4: a batch that is not a dry run returns (it never raises once the loop
\* has begun); the list has one entry per scene, in script then scene order;
\* the entry is an error record exactly when the scene failed, and otherwise
\* the success record built from the scene and its own task's result alone.
C4_PartialFailure ==
    (prog = "videogen" /\ ~dry_run) =>
        /\ pc = "raised" => call = 0
        /\ pc = "done" =>
              LET flat == FlatScenes(scripts)
              IN  /\ outcome.kind = "return"
                  /\ outcome.value = results
                  /\ Len(results) = Len(flat)
                  /\ \A n \in 1..Len(flat) :
                        /\ results[n].script_title = flat[n].title
                        /\ results[n].scene_index = flat[n].index
                        /\ ("error" \in DOMAIN results[n]) <=> SceneFailed(n)
                        /\ ~SceneFailed(n) =>
                              results[n] =
                                  [script_title |-> flat[n].title,
                                   scene_index |-> flat[n].index,
                                   time_range |-> flat[n].scene.time_range,
                                   prompt |-> BuildVideoPrompt(flat[n].scene),
                                   result |-> GetObject(CreateOf(n).id, "succeeded")]

\* C4 witness: a returned batch of four scenes, the second failed, the third
\* rejected at submission, the first and the last generated.
C4_Witness ==
    /\ prog = "videogen"
    /\ pc = "done"
    /\ Len(results) = 4
    /\ "result" \in DOMAIN results[1]
    /\ CreateOf(2).id # 0
    /\ "error" \in DOMAIN results[2]
    /\ CreateOf(3).id = 0
    /\ "error" \in DOMAIN results[3]
    /\ "result" \in DOMAIN results[4]

\* C6: the batch handles one item at a time: before the create of an item is
\* issued, every earlier item's task has been reported terminal (or its create
\* was rejected) and its record appended; at most one task is ever submitted
\* and not yet reported terminal, the one being polled.
C6_OneAtATime ==
    prog = "videogen" =>
        /\ Cardinality({id \in 1..Len(tasks) : tasks[id].term = 0}) <= 1
        /\ \A id \in 1..Len(tasks) :
              tasks[id].term = 0 => (pc \in PollPcs /\ task_id = id /\ id = Len(tasks))
        /\ \A n \in 1..Len(createCalls) :
              /\ createCalls[n].call = n
              /\ n < Len(createCalls) =>
                    /\ createCalls[n].id = 0 \/ tasks[createCalls[n].id].term >= 1
                    /\ Len(results) >= n

\* C6 witness: the second item's task is being polled after the first item's
\* task was reported terminal and its record appended.
C6_Witness ==
    /\ prog = "videogen"
    /\ pc = "gen_poll"
    /\ Len(tasks) = 2
    /\ tasks[1].term = 1
    /\ tasks[2].term = 0
    /\ Len(results) = 1

\* C7: a rejected create ends its call at once: it is the only create of the
\* call and the call issues no get; in a batch the rejection is the error
\* record of that scene, the next create is the next scene's request, and the
\* batch submits every scene.
C7_RejectionPropagates ==
    \A n \in 1..Len(createCalls) :
        createCalls[n].id = 0 =>
            LET c == createCalls[n].call
            IN  /\ CreatesOf(c) = {n}
                /\ GetsOf(c) = {}
                /\ CallOver(c)
                /\ prog # "videogen" => (pc = "raised" /\ outcome.kind = "raise")
                /\ prog = "videogen" =>
                      LET flat == FlatScenes(scripts)
                      IN  /\ Len(results) >= c
                          /\ results[c] = [script_title |-> flat[c].title,
                                           scene_index |-> flat[c].index,
                                           error |-> CreateRejected]
                          /\ n < Len(createCalls) =>
                                /\ createCalls[n + 1].call = c + 1
                                /\ createCalls[n + 1].req =
                                      GenRequest(BuildVideoPrompt(flat[c + 1].scene),
                                                 duration, FALSE)
                          /\ pc = "done" => Len(createCalls) = Len(flat)

\* C7 witness: the first scene's create was rejected and the second scene has
\* been submitted and is being polled.
C7_Witness ==
    /\ prog = "videogen"
    /\ pc = "gen_poll"
    /\ Len(createCalls) = 2
    /\ createCalls[1].id = 0
    /\ createCalls[2].id = 1
    /\ "error" \in DOMAIN results[1]

Polling == pc \in PollPcs

PollingPcs == {"gen_poll", "ext_poll", "ex_poll"}

SleepingPcs == {"gen_sleep", "ext_sleep", "ex_sleep"}

\* A step that leaves the polling loop has got a terminal status.
ExitsOnTerminalOnly == (Polling /\ ~Polling') => get_result'.status \in Terminal

\* A poll answered with a terminal status leaves the loop.
TerminalExits ==
    (pc \in PollingPcs /\ pc' # pc /\ get_result'.status \in Terminal) => ~Polling'

\* A poll answered with any other status goes to sleep, whatever the count.
PendingSleeps ==
    (pc \in PollingPcs /\ pc' # pc /\ get_result'.status \notin Terminal) =>
        /\ pc' \in SleepingPcs
        /\ task_id' = task_id
        /\ results' = results
        /\ outcome' = outcome

\* After the sleep the same task is polled again.
SleepPollsAgain ==
    pc \in SleepingPcs => (pc' \in PollingPcs /\ task_id' = task_id)

\* C8: a call leaves its polling loop exactly on a get that reports succeeded
\* or failed; on any other status it sleeps and polls the same task again,
\* however many polls there have been; and when the service comes to report a
\* terminal status, the call ends.
C8_EndsExactlyOnTerminal ==
    /\ [][ExitsOnTerminalOnly]_vars
    /\ [][TerminalExits]_vars
    /\ [][PendingSleeps]_vars
    /\ [][SleepPollsAgain]_vars
    /\ [](Polling => <>(~Polling))

\* C8 witness: a generate_video call has polled MaxPolls times, none terminal,
\* and waits to poll again.
C8_Witness ==
    /\ pc = "gen_sleep"
    /\ polls = MaxPolls
    /\ get_result.status \in Pending
    /\ tasks[task_id].term = 0

\* Generating or saving the story of the k-th topic raised.
TopicFailed(k) ==
    \/ textCalls[k].raised
    \/ \E w \in 1..Len(writes) :
          writes[w].path = StoryPath(topics[k], k) /\ writes[w].raised

\* The paths of the topics up to the k-th that did not fail, in order.
RECURSIVE SavedUpTo(_)
SavedUpTo(k) ==
    IF k = 0 THEN <<>>
    ELSE IF TopicFailed(k) THEN SavedUpTo(k - 1)
    ELSE Append(SavedUpTo(k - 1), StoryPath(topics[k], k))

MarkerLines == {k \in 1..Len(content) : content[k].kind \in {"title", "marker"}}

\* The last line of the section that starts at marker line m.
SectionEnd(m) ==
    IF \E n \in MarkerLines : n > m
    THEN (CHOOSE n \in MarkerLines : n > m /\ \A o \in MarkerLines : o > m => n <= o) - 1
    ELSE Len(content)

\* Line k is a recognized scene row: a table row whose time-range cell is a
\* range "N-Ms" or the ending label.
RecognizedRow(k) ==
    /\ content[k].kind = "row"
    /\ (IsRange(content[k].text) \/ content[k].text = Ending)

\* The recognized scene rows of the section that starts at marker line m.
RowsOfSection(m) == {k \in m..SectionEnd(m) : RecognizedRow(k)}

\* The sections with at least one recognized scene row, by their marker line.
YieldingSections == {m \in MarkerLines : RowsOfSection(m) # {}}

\* The place of x among the members of S, counted from 1 in document order.
Rank(S, x) == Cardinality({y \in S : y <= x})

\* C11: parse_script_md returns exactly one Script for each section that
\* starts at a title marker and has at least one recognized scene row, in
\* document order, each with the scenes of its own rows in document order;
\* a section without a recognized row and the text before the first marker
\* yield no Script.
C11_OneScriptPerSection ==
    dpc = "done" =>
        /\ Len(md_scripts) = Cardinality(YieldingSections)
        /\ \A m \in YieldingSections :
              LET s == md_scripts[Rank(YieldingSections, m)]
              IN  /\ s.title = IF content[m].kind = "title" THEN content[m].text
                                ELSE Unknown
                  /\ Len(s.scenes) = Cardinality(RowsOfSection(m))
                  /\ \A k \in RowsOfSection(m) :
                        s.scenes[Rank(RowsOfSection(m), k)].time_range = content[k].text

\* A parsed document with a recognized row before its first marker, a section
\* with recognized rows and a section without any.
C11_Witness ==
    /\ dpc = "done"
    /\ Len(content) >= 1
    /\ RecognizedRow(1)
    /\ Cardinality(MarkerLines) = 2
    /\ Cardinality(YieldingSections) = 1
    /\ Len(md_scripts) = 1

\* ------------------------------------------------------------ C12: dry run

\* C12: with dry_run set, generate_videos_from_script issues no create and no
\* get call for any scene of any script, and the list it returns is empty,
\* however many scripts and scenes were parsed; the only way it does not
\* return is the script_index selection raising before the loops.
C12_DryRunIssuesNothing ==
    (prog = "videogen" /\ dry_run) =>
        /\ createCalls = <<>>
        /\ getCalls = {}
        /\ tasks = <<>>
        /\ call = 0
        /\ pc \notin GenPcs
        /\ results = <<>>
        /\ pc = "done" => (outcome.kind = "return" /\ outcome.value = <<>>)
        /\ pc = "raised" => script_index # <<>>

\* A dry run over every script of a document with several scripts and
\* at least three scenes that has returned.
C12_Witness ==
    /\ prog = "videogen"
    /\ dry_run
    /\ script_index = <<>>
    /\ pc = "done"
    /\ Len(scripts) >= 2
    /\ Len(FlatScenes(scripts)) >= 3
    /\ outcome.kind = "return"

\* ------------------------------------------------- C13: submitted duration

\* The text of the n-th request submitted.
SubmittedText(n) == createCalls[n].req.content[1].text

\* C13: the duration encoded in every request generate_videos_from_script
\* submits is the duration argument, the same for all scenes of the run; the
\* request of a scene is its prompt with that argument, whatever duration the
\* parser derived for the scene from its time range.
C13_SubmittedDurationIsArgument ==
    prog = "videogen" =>
        \A n \in 1..Len(createCalls) :
            LET sc == FlatScenes(scripts)[n].scene
            IN  /\ SubmittedText(n)[3] = duration
                /\ SubmittedText(n) = <<BuildVideoPrompt(sc), "  --duration ", duration,
                                        " --camerafixed ", "false">>
                /\ \A m \in 1..Len(createCalls) :
                      SubmittedText(m)[3] = SubmittedText(n)[3]

\* A run with argument 8 that has submitted a scene the parser gave 10 seconds
\* and the ending scene, which the parser gave 3.
C13_Witness ==
    /\ prog = "videogen"
    /\ duration = 8
    /\ \E n \in 1..Len(createCalls) :
          /\ FlatScenes(scripts)[n].scene.time_range = <<"5", "-", "1", "5", "s">>
          /\ FlatScenes(scripts)[n].scene.duration = 10
    /\ \E n \in 1..Len(createCalls) :
          /\ FlatScenes(scripts)[n].scene.time_range = Ending
          /\ FlatScenes(scripts)[n].scene.duration = 3

====
